---- MODULE Spec2Model ----
(***************************************************************************)
(* A model of termplot (src/lib.rs, src/plot.rs, src/ticks.rs): the Domain *)
(* sampler, the tick labels, the drawable plots and the projection of the  *)
(* ViewCanvas.                                                             *)
(*                                                                         *)
(* Numbers.  The program computes in f64.  An f64 is modelled as a pair    *)
(* <<n, d>>: a finite value is the dyadic rational n/d in lowest terms     *)
(* (d a power of two), <<1,0>> is +inf, <<-1,0>> is -inf and <<0,0>> is    *)
(* NaN.  Every arithmetic operation computes the exact result and rounds   *)
(* it to the nearest value with MantBits significant bits, ties to even,   *)
(* as IEEE 754 does with 53 bits.  The exponent is not bounded (the inputs *)
(* are far from f64's overflow and underflow) and the sign of zero is not  *)
(* kept.                                                                   *)
(***************************************************************************)
EXTENDS Integers, Sequences, FiniteSets, TLC

(* Significant bits of the model's floating-point format. *)
MantBits == 8

(* Bits of a usize in the model (Rust has targets of 16, 32 and 64). *)
UsizeBits == 16

UsizeMod == 2^UsizeBits

NaN == <<0, 0>>
PosInf == <<1, 0>>
NegInf == <<-1, 0>>
Zero == <<0, 1>>

IsNaN(x) == x = NaN
IsInf(x) == x[2] = 0 /\ x[1] # 0
(* f64::is_finite *)
IsFinite(x) == x[2] # 0

Abs(i) == IF i < 0 THEN -i ELSE i
Sgn(i) == IF i < 0 THEN -1 ELSE IF i > 0 THEN 1 ELSE 0

RECURSIVE Reduce(_, _)
Reduce(n, d) ==
    IF d > 1 /\ n % 2 = 0 THEN Reduce(n \div 2, d \div 2) ELSE <<n, d>>

RECURSIVE ScaleUp(_, _, _)
ScaleUp(a, d, e) ==
    IF a \div 2^(MantBits - 1) < d THEN ScaleUp(2 * a, d, e - 1) ELSE <<a, d, e>>

RECURSIVE ScaleDown(_, _, _)
ScaleDown(a, d, e) ==
    IF a \div 2^MantBits >= d THEN ScaleDown(a, 2 * d, e + 1) ELSE <<a, d, e>>

(* The rational n/d (d > 0) rounded to the nearest float, ties to even. *)
RoundQ(n, d) ==
    IF n = 0 THEN Zero
    ELSE LET s == ScaleDown(Abs(n), d, 0)
             t == ScaleUp(s[1], s[2], s[3])
             q == t[1] \div t[2]
             r == t[1] % t[2]
             m == IF 2 * r > t[2] \/ (2 * r = t[2] /\ q % 2 = 1) THEN q + 1 ELSE q
         IN  IF t[3] >= 0 THEN <<Sgn(n) * m * 2^t[3], 1>>
             ELSE Reduce(Sgn(n) * m, 2^(-t[3]))

(* usize as f64, u32 as f64 *)
FromInt(i) == RoundQ(i, 1)

FNeg(x) == <<-x[1], x[2]>>

(* f64::abs *)
FAbs(x) == <<Abs(x[1]), x[2]>>

FAdd(x, y) ==
    IF IsNaN(x) \/ IsNaN(y) THEN NaN
    ELSE IF IsInf(x) THEN (IF IsInf(y) /\ y # x THEN NaN ELSE x)
    ELSE IF IsInf(y) THEN y
    ELSE RoundQ(x[1] * y[2] + y[1] * x[2], x[2] * y[2])

FSub(x, y) == FAdd(x, FNeg(y))

FMul(x, y) ==
    IF IsNaN(x) \/ IsNaN(y) THEN NaN
    ELSE IF IsInf(x) \/ IsInf(y)
         THEN (IF x[1] = 0 \/ y[1] = 0 THEN NaN ELSE <<Sgn(x[1]) * Sgn(y[1]), 0>>)
    ELSE RoundQ(x[1] * y[1], x[2] * y[2])

FDiv(x, y) ==
    IF IsNaN(x) \/ IsNaN(y) THEN NaN
    ELSE IF IsInf(x) THEN (IF IsInf(y) THEN NaN
                           ELSE <<x[1] * (IF y[1] < 0 THEN -1 ELSE 1), 0>>)
    ELSE IF IsInf(y) THEN Zero
    ELSE IF y[1] = 0 THEN (IF x[1] = 0 THEN NaN ELSE <<Sgn(x[1]), 0>>)
    ELSE RoundQ(Sgn(y[1]) * x[1] * y[2], x[2] * Abs(y[1]))

(* x < y on f64: false when either is NaN *)
FLt(x, y) ==
    /\ ~IsNaN(x)
    /\ ~IsNaN(y)
    /\ IF IsInf(x) \/ IsInf(y)
       THEN x # y /\ (x = NegInf \/ y = PosInf)
       ELSE x[1] * y[2] < y[1] * x[2]

(* x >= y on f64: false when either is NaN *)
FGe(x, y) == ~IsNaN(x) /\ ~IsNaN(y) /\ ~FLt(x, y)

FLe(x, y) == FGe(y, x)

(* f64::max and f64::min: the other operand when one is NaN *)
FMax(x, y) == IF IsNaN(x) THEN y ELSE IF IsNaN(y) THEN x ELSE IF FLt(x, y) THEN y ELSE x
FMin(x, y) == IF IsNaN(x) THEN y ELSE IF IsNaN(y) THEN x ELSE IF FLt(y, x) THEN y ELSE x

(* f64::round: to the nearest integer, halves away from zero *)
FRound(x) ==
    IF ~IsFinite(x) THEN x
    ELSE <<Sgn(x[1]) * ((2 * Abs(x[1]) + x[2]) \div (2 * x[2])), 1>>

(* f64::clamp (lo <= hi is asserted by the callee): NaN stays NaN *)
FClamp(x, lo, hi) ==
    IF IsNaN(x) THEN x ELSE IF FLt(x, lo) THEN lo ELSE IF FLt(hi, x) THEN hi ELSE x

(* The largest integer of the model checker stands for u32::MAX. *)
U32Max == 2^30 + (2^30 - 1)

(* f64 as u32: truncates, saturates, NaN is 0. *)
AsU32(x) ==
    IF IsNaN(x) THEN 0
    ELSE IF x = PosInf THEN U32Max
    ELSE IF x[1] <= 0 THEN 0
    ELSE x[1] \div x[2]

(* A float of the inputs: the decimal t/10 as the nearest float. *)
Dec(t) == RoundQ(t, 10)

(***************************************************************************)
(* Text.  A String is a sequence of one-character strings.                 *)
(***************************************************************************)
Digits == <<"0", "1", "2", "3", "4", "5", "6", "7", "8", "9">>

RECURSIVE IntStr(_)
IntStr(i) ==
    IF i < 10 THEN <<Digits[i + 1]>> ELSE IntStr(i \div 10) \o <<Digits[(i % 10) + 1]>>

(* The tenths of |n/d|, ties to even *)
Tenths(x) ==
    LET a == 10 * Abs(x[1])
        q == a \div x[2]
        r == a % x[2]
    IN  IF 2 * r > x[2] \/ (2 * r = x[2] /\ q % 2 = 1) THEN q + 1 ELSE q

(* format!("{:.1}", x) *)
Format1(x) ==
    IF IsNaN(x) THEN <<"N", "a", "N">>
    ELSE IF x = PosInf THEN <<"i", "n", "f">>
    ELSE IF x = NegInf THEN <<"-", "i", "n", "f">>
    ELSE (IF x[1] < 0 THEN <<"-">> ELSE <<>>)
         \o IntStr(Tenths(x) \div 10) \o <<".">> \o <<Digits[(Tenths(x) % 10) + 1]>>

(* format!("{: >n$}", ""): n spaces *)
Spaces(n) == [i \in 1..n |-> " "]

(***************************************************************************)
(* Bounds of the inputs.                                                   *)
(***************************************************************************)
(* Domain::iter is called with 0..MaxSteps steps. *)
MaxSteps == 6

(* At most MaxYield calls of next() return a value in one iteration. *)
MaxYield == MaxSteps + 2

(* View sizes are 0..MaxSize pixels in each direction, or the default. *)
MaxSize == 2

(* A ViewCanvas takes at most MaxPrims line and point calls. *)
MaxPrims == 1

(* A Graph is drawn on views 1..MaxGraphW pixels wide. *)
MaxGraphW == 4

(* Histograms are built from at most MaxValues values (or HistExample), *)
(* at most MaxBuckets bucket ranges, or a bucket count of 0..MaxCount.   *)
MaxValues == 3
MaxBuckets == 3
MaxCount == 3

(* XTicks are built for widths 0..MaxWidth. *)
MaxWidth == 20

(* YTicks are built for 1..MaxRows rows. *)
MaxRows == 4

(* A caller makes at most MaxCalls configuration calls on a Plot. *)
MaxCalls == 2

VARIABLES
    dom,        \* the Domain that is sampled
    itSteps,    \* the argument of the last Domain::iter call, -1 before it
    it,         \* the DomainIterator that call returned, NoIter before it
    yielded,    \* the values next() has returned so far
    itEnded,    \* next() has returned None
    tickArgs,   \* the arguments XTicks::new or YTicks::new was called with
    xticks,     \* the XTicks built, NoTicks before
    xfmt,       \* what formatting xticks did, NoFmt before
    yticks,     \* the YTicks built, NoTicks before
    yget,       \* the last call of YTicks::get or display_width and its result
    view,       \* the View: domain, codomain and size
    canvas,     \* the ViewCanvas over view: what it forwarded to the pixel grid
    function,   \* the function of the Graph, at the points it is evaluated at
    histArgs,   \* the arguments the Histogram was built from
    hist,       \* the Histogram built, NoHist before
    plot,       \* the Plot: title, x_label, y_label and with_decoration
    plots,      \* view.plots, the plots added to the Plot
    added,      \* the arguments of the add_plot calls so far, in call order
    rendered,   \* what the renders since the last configuration call gave
    calls       \* the number of configuration calls the caller has made

iterVars == <<dom, itSteps, it, yielded, itEnded>>
tickVars == <<tickArgs, xticks, xfmt, yticks, yget>>
viewVars == <<view, canvas, function>>
histVars == <<histArgs, hist>>
plotVars == <<plot, plots, added, rendered, calls>>
vars == <<iterVars, tickVars, viewVars, histVars, plotVars>>

(***************************************************************************)
(* Domain (src/lib.rs)                                                     *)
(***************************************************************************)
(* Domain(start..end) *)
Domain(s, e) == [start |-> s, end |-> e]

(* Domain::default *)
DomainDefault == Domain(FromInt(-10), FromInt(10))

(* Domain::min *)
DomainMin(d) == d.start

(* Domain::max *)
DomainMax(d) == d.end

(* Domain::range *)
DomainRange(d) == FAbs(FSub(d.end, d.start))

(* DomainIterator::new *)
DomainIteratorNew(range, step_by) ==
    [current |-> range.start, domain |-> range, step_by |-> step_by]

(* Domain::iter *)
DomainIter(d, steps) ==
    DomainIteratorNew(d, FDiv(DomainRange(d), FromInt(steps)))

(* next as it would be with the bound checked after the value is taken *)
IteratorNextUnchecked(i) ==
    IF FGe(i.current, i.domain.end) /\ i.current # i.domain.start
    THEN [some |-> FALSE, value |-> NaN, iter |-> i]
    ELSE [some |-> TRUE, value |-> i.current,
          iter |-> [i EXCEPT !.current = FAdd(i.current, i.step_by)]]

(* DomainIterator::next: Some(value) or None, and the iterator after *)
IteratorNext(i) ==
    IF FGe(i.current, i.domain.end) THEN [some |-> FALSE, value |-> NaN, iter |-> i]
    ELSE [some |-> TRUE, value |-> i.current,
          iter |-> [i EXCEPT !.current = FAdd(i.current, i.step_by)]]

NoIter == [current |-> NaN, domain |-> Domain(NaN, NaN), step_by |-> NaN]

IterBounds == {FromInt(-10), FromInt(-8), Zero, FromInt(1), FromInt(8), FromInt(10)}

IterDomains == {Domain(s, e) : s \in IterBounds, e \in IterBounds}

IterIdle ==
    /\ itSteps = -1
    /\ it = NoIter
    /\ yielded = <<>>
    /\ itEnded = FALSE

(* let it = dom.iter(steps) *)
CallIter ==
    \E steps \in 0..MaxSteps :
        /\ it' = DomainIter(dom, steps)
        /\ itSteps' = steps
        /\ yielded' = <<>>
        /\ itEnded' = FALSE
        /\ UNCHANGED <<dom, tickVars, viewVars, histVars, plotVars>>

(* it.next() *)
CallNext ==
    /\ itSteps >= 0
    /\ Len(yielded) < MaxYield
    /\ LET r == IteratorNext(it)
       IN  /\ it' = r.iter
           /\ IF r.some
              THEN yielded' = Append(yielded, r.value) /\ UNCHANGED itEnded
              ELSE itEnded' = TRUE /\ UNCHANGED yielded
    /\ UNCHANGED <<dom, itSteps, tickVars, viewVars, histVars, plotVars>>

(***************************************************************************)
(* XTicks and YTicks (src/ticks.rs)                                        *)
(***************************************************************************)
NoTicks == [labels |-> <<>>]
NoFmt == [result |-> "none"]
NoGet == [call |-> "none"]

(* XTicks::new *)
XTicksNew(domain, width, count) ==
    LET max == Format1(DomainMax(domain))
        min == Format1(DomainMin(domain))
    IN  [labels |-> <<min, max>>, width |-> width]

RECURSIVE SumLen(_)
SumLen(labels) ==
    IF labels = <<>> THEN 0 ELSE Len(Head(labels)) + SumLen(Tail(labels))

(* a - b on usize without overflow checks *)
WrappingSub(a, b) == (a - b) % UsizeMod

(* fmt as it would be with the spacing divided among the labels, not the  *)
(* gaps between them                                                       *)
XTicksFmtPerLabel(t, overflow_checks) ==
    LET labels_width == SumLen(t.labels)
        total_spacing == WrappingSub(t.width, labels_width)
        spacing == total_spacing \div Len(t.labels)
        written == t.labels[1] \o Spaces(spacing) \o t.labels[2]
        rest == WrappingSub(t.width, spacing * (Len(t.labels) - 1))
        fill == WrappingSub(rest, labels_width)
        underflow == t.width < labels_width
    IN  IF overflow_checks /\ underflow
        THEN [result |-> "panic", out |-> <<>>]
        ELSE [result |-> "ok", spacing |-> spacing, fill |-> fill,
              underflow |-> underflow, out |-> written \o Spaces(fill)]

(* <XTicks as Display>::fmt.  overflow_checks is the build's setting: with    *)
(* it a usize subtraction that goes below zero panics, without it wraps.   *)
XTicksFmt(t, overflow_checks) ==
    LET labels_width == SumLen(t.labels)
        total_spacing == WrappingSub(t.width, labels_width)
        spacing == total_spacing \div (Len(t.labels) - 1)
        space(index) == IF index = 1 THEN 0 ELSE spacing
        written == Spaces(space(1)) \o t.labels[1] \o Spaces(space(2)) \o t.labels[2]
        rest == WrappingSub(t.width, spacing * (Len(t.labels) - 1))
        fill == WrappingSub(rest, labels_width)
        underflow == \/ t.width < labels_width
                     \/ t.width < spacing * (Len(t.labels) - 1)
                     \/ rest < labels_width
    IN  IF overflow_checks /\ underflow
        THEN [result |-> "panic", out |-> <<>>]
        ELSE [result |-> "ok", spacing |-> spacing, fill |-> fill,
              underflow |-> underflow, out |-> written \o Spaces(fill)]

(* YTicks::new *)
YTicksNew(codomain, row_count, count) ==
    LET max == Format1(DomainMax(codomain))
        min == Format1(DomainMin(codomain))
    IN  [labels |-> <<max, min>>, row_indexes |-> <<0, row_count - 1>>]

(* Iterator::max_by_key(|label| label.len()): the last of the longest *)
RECURSIVE MaxByLen(_)
MaxByLen(labels) ==
    IF Len(labels) = 1 THEN labels[1]
    ELSE LET m == MaxByLen(SubSeq(labels, 1, Len(labels) - 1))
             l == labels[Len(labels)]
         IN  IF Len(l) >= Len(m) THEN l ELSE m

(* YTicks::display_width *)
DisplayWidth(t) == IF t.labels = <<>> THEN 0 ELSE Len(MaxByLen(t.labels))

(* Iterator::position: the first index (from 0) of row_index, -1 for None *)
Position(row_indexes, row_index) ==
    IF \E k \in 1..Len(row_indexes) : row_indexes[k] = row_index
    THEN (CHOOSE k \in 1..Len(row_indexes) :
              /\ row_indexes[k] = row_index
              /\ \A j \in 1..(k - 1) : row_indexes[j] # row_index) - 1
    ELSE -1

(* get as it would be with Iterator::rposition: the last index matching *)
YTicksGetLast(t, row_index) ==
    IF \E k \in 1..Len(t.row_indexes) : t.row_indexes[k] = row_index
    THEN t.labels[CHOOSE k \in 1..Len(t.row_indexes) :
                      /\ t.row_indexes[k] = row_index
                      /\ \A j \in (k + 1)..Len(t.row_indexes) : t.row_indexes[j] # row_index]
    ELSE <<>>

(* YTicks::get *)
YTicksGet(t, row_index) ==
    LET maybe_index == Position(t.row_indexes, row_index)
    IN  IF maybe_index >= 0 THEN t.labels[maybe_index + 1] ELSE <<>>

TickBounds == {FromInt(-10), Dec(-3), Zero, Dec(12), FromInt(10), FromInt(100)}

TickDomains == {Domain(s, e) : s \in TickBounds, e \in TickBounds}

TickIdle ==
    /\ tickArgs = [domain |-> DomainDefault, width |-> 0, row_count |-> 1]
    /\ xticks = NoTicks
    /\ xfmt = NoFmt
    /\ yticks = NoTicks
    /\ yget = NoGet

(* let x_ticks = XTicks::new(&domain, width, 2) *)
CallXTicksNew ==
    /\ xticks' = XTicksNew(tickArgs.domain, tickArgs.width, 2)
    /\ xfmt' = NoFmt
    /\ UNCHANGED <<tickArgs, yticks, yget, iterVars, viewVars, histVars, plotVars>>

(* format!("{x_ticks}") *)
CallXTicksFmt ==
    /\ xticks # NoTicks
    /\ \E overflow_checks \in BOOLEAN : xfmt' = XTicksFmt(xticks, overflow_checks)
    /\ UNCHANGED <<tickArgs, xticks, yticks, yget, iterVars, viewVars, histVars, plotVars>>

(* let y_ticks = YTicks::new(&codomain, row_count, 2) *)
CallYTicksNew ==
    /\ yticks' = YTicksNew(tickArgs.domain, tickArgs.row_count, 2)
    /\ yget' = NoGet
    /\ UNCHANGED <<tickArgs, xticks, xfmt, iterVars, viewVars, histVars, plotVars>>

(* y_ticks.get(row_index) *)
CallYTicksGet ==
    /\ yticks # NoTicks
    /\ \E row_index \in 0..MaxRows :
           yget' = [call |-> "get", row_index |-> row_index,
                    label |-> YTicksGet(yticks, row_index)]
    /\ UNCHANGED <<tickArgs, xticks, xfmt, yticks, iterVars, viewVars, histVars, plotVars>>

(* y_ticks.display_width() *)
CallDisplayWidth ==
    /\ yticks # NoTicks
    /\ yget' = [call |-> "display_width", width |-> DisplayWidth(yticks)]
    /\ UNCHANGED <<tickArgs, xticks, xfmt, yticks, iterVars, viewVars, histVars, plotVars>>

(***************************************************************************)
(* View and ViewCanvas (src/lib.rs)                                        *)
(***************************************************************************)
(* Size::new *)
Size(w, h) == [w |-> w, h |-> h]

(* Size::default *)
SizeDefault == Size(100, 100)

(* View::default, without the plots *)
ViewDefault == [domain |-> DomainDefault, codomain |-> DomainDefault, size |-> SizeDefault]

(* No canvas exists. *)
NoCanvas == [state |-> "none", prims |-> <<>>]

(* ViewCanvas::new: nothing is drawn on the grid of drawille::Canvas::new. *)
(* prims is what the canvas has forwarded to the grid, in order.           *)
ViewCanvasNew == [state |-> "open", prims |-> <<>>]

(* project_on_canvas without the inversion of the rows *)
ProjectNoFlip(v, x, y) ==
    LET height == FromInt(v.size.h)
        y_tmp == FDiv(FSub(y, DomainMin(v.codomain)), DomainRange(v.codomain))
        y_hi == FSub(height, FromInt(1))
        y_px == FClamp(FRound(FMul(y_tmp, height)), Zero, y_hi)
        width == FromInt(v.size.w)
        x_tmp == FDiv(FSub(x, DomainMin(v.domain)), DomainRange(v.domain))
        x_hi == FSub(width, FromInt(1))
        x_px == FClamp(FRound(FMul(x_tmp, width)), Zero, x_hi)
    IN  IF FLt(y_hi, Zero) \/ FLt(x_hi, Zero) THEN [panic |-> TRUE, x |-> 0, y |-> 0]
        ELSE [panic |-> FALSE, x |-> AsU32(x_px), y |-> AsU32(y_px)]

(* project_on_canvas without the clamps *)
ProjectNoClamp(v, x, y) ==
    LET height == FromInt(v.size.h)
        y_tmp == FDiv(FSub(y, DomainMin(v.codomain)), DomainRange(v.codomain))
        y_px == FRound(FSub(height, FMul(y_tmp, height)))
        width == FromInt(v.size.w)
        x_tmp == FDiv(FSub(x, DomainMin(v.domain)), DomainRange(v.domain))
        x_px == FRound(FMul(x_tmp, width))
    IN  [panic |-> FALSE, x |-> AsU32(x_px), y |-> AsU32(y_px)]

(* ViewCanvas::project_on_canvas: the pixel (x, y); it panics when         *)
(* f64::clamp is given min > max                                           *)
ProjectOnCanvas(v, x, y) ==
    LET height == FromInt(v.size.h)
        y_tmp == FDiv(FSub(y, DomainMin(v.codomain)), DomainRange(v.codomain))
        y_hi == FSub(height, FromInt(1))
        y_px == FClamp(FRound(FSub(height, FMul(y_tmp, height))), Zero, y_hi)
        width == FromInt(v.size.w)
        x_tmp == FDiv(FSub(x, DomainMin(v.domain)), DomainRange(v.domain))
        x_hi == FSub(width, FromInt(1))
        x_px == FClamp(FRound(FMul(x_tmp, width)), Zero, x_hi)
    IN  IF FLt(y_hi, Zero) \/ FLt(x_hi, Zero) THEN [panic |-> TRUE, x |-> 0, y |-> 0]
        ELSE [panic |-> FALSE, x |-> AsU32(x_px), y |-> AsU32(y_px)]

(* ViewCanvas::line: the canvas after the call.  An entry keeps the call's *)
(* coordinates beside the pixels given to drawille::Canvas::line.          *)
Line(c, v, x0, y0, x1, y1) ==
    LET p0 == ProjectOnCanvas(v, x0, y0)
        p1 == ProjectOnCanvas(v, x1, y1)
    IN  IF c.state = "panicked" \/ p0.panic \/ p1.panic
        THEN [c EXCEPT !.state = "panicked"]
        ELSE [c EXCEPT !.prims = Append(@, [op |-> "line",
                                            from |-> <<x0, y0>>, to |-> <<x1, y1>>,
                                            p0 |-> <<p0.x, p0.y>>,
                                            p1 |-> <<p1.x, p1.y>>])]

(* ViewCanvas::point: as line, with drawille::Canvas::set *)
Point(c, v, x, y) ==
    LET p == ProjectOnCanvas(v, x, y)
    IN  IF c.state = "panicked" \/ p.panic
        THEN [c EXCEPT !.state = "panicked"]
        ELSE [c EXCEPT !.prims = Append(@, [op |-> "point",
                                            from |-> <<x, y>>, to |-> <<x, y>>,
                                            p0 |-> <<p.x, p.y>>,
                                            p1 |-> <<p.x, p.y>>])]

(* The domains and codomains a caller sets: usual, reversed and empty. *)
ViewDomains ==
    { Domain(FromInt(-8), FromInt(8)), Domain(Zero, FromInt(8)),
      Domain(FromInt(8), FromInt(-8)), Domain(Zero, Zero) }

(* The points a caller draws: the corners of the view, the origin, points  *)
(* outside the view and a point that is no number.                         *)
CanvasPoints(v) ==
    { <<DomainMin(v.domain), DomainMin(v.codomain)>>,
      <<DomainMax(v.domain), DomainMax(v.codomain)>>,
      <<Zero, Zero>>,
      <<FromInt(100), FromInt(-100)>>,
      <<NaN, PosInf>> }

(* The lines a caller draws: the diagonal of the view, the axes as         *)
(* View::draw_axis draws them, a line that leaves the view and a line      *)
(* between points that are no numbers.                                     *)
CanvasLines(v) ==
    { <<DomainMin(v.domain), DomainMin(v.codomain),
        DomainMax(v.domain), DomainMax(v.codomain)>>,
      <<DomainMin(v.domain), Zero, DomainMax(v.domain), Zero>>,
      <<Zero, DomainMin(v.codomain), Zero, DomainMax(v.codomain)>>,
      <<FromInt(-100), FromInt(100), FromInt(3), FromInt(-5)>>,
      <<NaN, PosInf, NegInf, NaN>> }

(* The sizes a caller sets: the small ones, a grid too narrow for the X    *)
(* labels of the default domain and a grid that has room for them.         *)
ViewSizes == {Size(w, h) : w \in 0..MaxSize, h \in 0..MaxSize} \cup {Size(10, 10), Size(20, 8)}

ViewIdle == view = ViewDefault /\ canvas = NoCanvas /\ function = <<>>

(* plot.set_domain(domain) *)
SetDomain ==
    /\ canvas = NoCanvas
    /\ calls < MaxCalls
    /\ \E d \in ViewDomains : view' = [view EXCEPT !.domain = d]
    /\ rendered' = <<>>
    /\ calls' = calls + 1
    /\ UNCHANGED <<canvas, function, iterVars, tickVars, histVars, plot, plots, added>>

(* plot.set_codomain(codomain) *)
SetCodomain ==
    /\ canvas = NoCanvas
    /\ calls < MaxCalls
    /\ \E d \in ViewDomains : view' = [view EXCEPT !.codomain = d]
    /\ rendered' = <<>>
    /\ calls' = calls + 1
    /\ UNCHANGED <<canvas, function, iterVars, tickVars, histVars, plot, plots, added>>

(* plot.set_size(Size::new(w, h)) *)
SetSize ==
    /\ canvas = NoCanvas
    /\ calls < MaxCalls
    /\ \E size \in ViewSizes : view' = [view EXCEPT !.size = size]
    /\ rendered' = <<>>
    /\ calls' = calls + 1
    /\ UNCHANGED <<canvas, function, iterVars, tickVars, histVars, plot, plots, added>>

(* let mut canvas = ViewCanvas::new(&view); the view is borrowed until the *)
(* canvas is dropped                                                       *)
CallViewCanvasNew ==
    /\ canvas = NoCanvas
    /\ canvas' = ViewCanvasNew
    /\ UNCHANGED <<view, function, iterVars, tickVars, histVars, plotVars>>

(* canvas.line(x0, y0, x1, y1) *)
CallLine ==
    /\ canvas.state = "open"
    /\ Len(canvas.prims) < MaxPrims
    /\ \E l \in CanvasLines(view) : canvas' = Line(canvas, view, l[1], l[2], l[3], l[4])
    /\ UNCHANGED <<view, function, iterVars, tickVars, histVars, plotVars>>

(* canvas.point(x, y) *)
CallPoint ==
    /\ canvas.state = "open"
    /\ Len(canvas.prims) < MaxPrims
    /\ \E a \in CanvasPoints(view) : canvas' = Point(canvas, view, a[1], a[2])
    /\ UNCHANGED <<view, function, iterVars, tickVars, histVars, plotVars>>

(* the canvas goes out of scope *)
DropCanvas ==
    /\ canvas.state = "open"
    /\ canvas' = NoCanvas
    /\ UNCHANGED <<view, function, iterVars, tickVars, histVars, plotVars>>

(***************************************************************************)
(* Graph (src/plot.rs)                                                     *)
(***************************************************************************)
(* Iterator::collect on a DomainIterator: every value it yields *)
RECURSIVE Collect(_)
Collect(i) ==
    LET r == IteratorNext(i)
    IN  IF r.some THEN <<r.value>> \o Collect(r.iter) ELSE <<>>

(* view.domain.iter(view.size.w) in Graph::draw *)
Samples(v) == Collect(DomainIter(v.domain, v.size.w))

(* filter_map in Graph::draw: the (x, y) whose y is finite *)
Retained(f, xs) ==
    LET pairs == [k \in 1..Len(xs) |-> <<xs[k], f[xs[k]]>>]
    IN  SelectSeq(pairs, LAMBDA p : IsFinite(p[2]))

(* windows(2).for_each(canvas.line) in Graph::draw, from window k on *)
RECURSIVE DrawWindows(_, _, _, _)
DrawWindows(c, v, pts, k) ==
    IF k + 1 > Len(pts) THEN c
    ELSE DrawWindows(Line(c, v, pts[k][1], pts[k][2], pts[k + 1][1], pts[k + 1][2]),
                     v, pts, k + 1)

(* Graph::draw as it would be if a dropped sample broke the curve: only   *)
(* samples next to each other in the sampling sequence are joined.         *)
RECURSIVE DrawAdjacent(_, _, _, _, _)
DrawAdjacent(c, v, f, xs, k) ==
    IF k + 1 > Len(xs) THEN c
    ELSE DrawAdjacent(IF IsFinite(f[xs[k]]) /\ IsFinite(f[xs[k + 1]])
                      THEN Line(c, v, xs[k], f[xs[k]], xs[k + 1], f[xs[k + 1]])
                      ELSE c,
                      v, f, xs, k + 1)

GraphDrawBroken(f, v, c) == DrawAdjacent(c, v, f, Samples(v), 1)

(* <Graph as DrawView>::draw *)
GraphDraw(f, v, c) == DrawWindows(c, v, Retained(f, Samples(v)), 1)

(* What the function of a Graph returns. *)
FunctionValues == {Zero, FromInt(1), NaN, PosInf}

GraphViews ==
    { [domain |-> d, codomain |-> Domain(FromInt(-1), FromInt(2)), size |-> Size(w, 4)] :
          d \in {Domain(FromInt(-8), FromInt(8)), Domain(Zero, FromInt(8)),
                 Domain(FromInt(8), FromInt(-8))},
          w \in 1..MaxGraphW }

SetOf(xs) == {xs[k] : k \in 1..Len(xs)}

(* plot.draw(&view, &mut canvas) for a Graph *)
CallGraphDraw ==
    /\ canvas = ViewCanvasNew
    /\ canvas' = GraphDraw(function, view, canvas)
    /\ UNCHANGED <<view, function, iterVars, tickVars, histVars, plotVars>>

(***************************************************************************)
(* Bar and Histogram (src/plot.rs)                                         *)
(***************************************************************************)
(* ops::Range<f64> *)
Range(s, e) == [start |-> s, end |-> e]

(* Range::contains as RangeInclusive::contains would be *)
RangeContainsClosed(range, v) == FLe(range.start, v) /\ FLe(v, range.end)

(* Range::contains *)
RangeContains(range, v) == FLe(range.start, v) /\ FLt(v, range.end)

(* Histogram::new *)
HistogramNew(values, buckets_range) ==
    [built |-> TRUE, buckets |->
        [k \in 1..Len(buckets_range) |->
            [x |-> buckets_range[k].start,
             width |-> FSub(buckets_range[k].end, buckets_range[k].start),
             height |-> FromInt(Len(SelectSeq(values,
                            LAMBDA v : RangeContains(buckets_range[k], v))))]]]

(* values.iter().copied().fold(init, op) *)
RECURSIVE FoldMax(_, _)
FoldMax(acc, values) ==
    IF values = <<>> THEN acc ELSE FoldMax(FMax(acc, Head(values)), Tail(values))

RECURSIVE FoldMin(_, _)
FoldMin(acc, values) ==
    IF values = <<>> THEN acc ELSE FoldMin(FMin(acc, Head(values)), Tail(values))

(* The bucket ranges of Histogram::new_with_buckets_count *)
BucketsOfCount(values, count) ==
    LET max == FoldMax(NegInf, values)
        min == FoldMin(PosInf, values)
        width == FDiv(FSub(max, min), FromInt(count))
    IN  [k \in 1..count |->
            Range(FAdd(min, FMul(width, FromInt(k - 1))),
                  FAdd(min, FMul(width, FAdd(FromInt(k - 1), FromInt(1)))))]

(* Histogram::new_with_buckets_count *)
HistogramNewWithBucketsCount(values, count) ==
    HistogramNew(values, BucketsOfCount(values, count))

NoHist == [built |-> FALSE, buckets |-> <<>>]

HistValues == {Zero, FromInt(1), FromInt(2), FromInt(3)}

SeqsUpTo(S, n) == UNION {[1..k -> S] : k \in 0..n}

(* values [1,1,3,3,5] *)
HistExample == <<FromInt(1), FromInt(1), FromInt(3), FromInt(3), FromInt(5)>>

HistInputs == SeqsUpTo(HistValues, MaxValues) \cup {HistExample}

(* The bucket ranges a caller gives: side by side, overlapping, empty. *)
HistRanges ==
    { Range(FromInt(0), FromInt(2)), Range(FromInt(2), FromInt(4)),
      Range(FromInt(4), FromInt(6)), Range(FromInt(0), FromInt(4)),
      Range(FromInt(4), FromInt(2)) }

HistIdle == histArgs = [values |-> <<>>, buckets_range |-> <<>>, count |-> -1] /\ hist = NoHist

(* Histogram::new(values, buckets_range) *)
CallHistogramNew ==
    /\ hist = NoHist
    /\ \E values \in HistInputs, buckets_range \in SeqsUpTo(HistRanges, MaxBuckets) :
           /\ hist' = HistogramNew(values, buckets_range)
           /\ histArgs' = [values |-> values, buckets_range |-> buckets_range, count |-> -1]
    /\ UNCHANGED <<iterVars, tickVars, viewVars, plotVars>>

(* Histogram::new_with_buckets_count(values, count) *)
CallHistogramNewWithBucketsCount ==
    /\ hist = NoHist
    /\ \E values \in HistInputs, count \in 0..MaxCount :
           /\ hist' = HistogramNewWithBucketsCount(values, count)
           /\ histArgs' = [values |-> values,
                           buckets_range |-> BucketsOfCount(values, count),
                           count |-> count]
    /\ UNCHANGED <<iterVars, tickVars, viewVars, plotVars>>

(***************************************************************************)
(* Bar, Bars and the drawing of the plots (src/plot.rs)                    *)
(***************************************************************************)
(* let d = x; F(d): x is computed once and F reads its value *)
Let(x, F(_)) == CHOOSE r \in {F(d) : d \in {x}} : TRUE

(* Bar::new *)
Bar(x, width, height) == [x |-> x, width |-> width, height |-> height]

(* canvas.line(x0, y0, x1, y1) for each (x0, y0, x1, y1) of segs in order, *)
(* from the k-th on                                                        *)
RECURSIVE DrawSegments(_, _, _, _)
DrawSegments(c, v, segs, k) ==
    IF k > Len(segs) THEN c
    ELSE Let(Line(c, v, segs[k][1], segs[k][2], segs[k][3], segs[k][4]),
             LAMBDA d : DrawSegments(d, v, segs, k + 1))

(* <Bar as DrawView>::draw *)
BarDraw(bar, v, c) ==
    Let(FAdd(bar.x, bar.width), LAMBDA right :
        DrawSegments(c, v, << <<bar.x, Zero, bar.x, bar.height>>,
                             <<right, Zero, right, bar.height>>,
                             <<bar.x, bar.height, right, bar.height>> >>, 1))

(* bars.iter().for_each(|bar| bar.draw(view, canvas)), from bar k on:      *)
(* <Bars as DrawView>::draw and <Histogram as DrawView>::draw              *)
RECURSIVE BarsDraw(_, _, _, _)
BarsDraw(bars, v, c, k) ==
    IF k > Len(bars) THEN c
    ELSE Let(BarDraw(bars[k], v, c), LAMBDA d : BarsDraw(bars, v, d, k + 1))

(* The plots a caller adds.  A Box<dyn DrawView> is its kind and its bars: *)
(* the bars of a Bars, the buckets of a Histogram.                         *)
(* Bars::new *)
Bars(bars_height) ==
    [kind |-> "Bars",
     bars |-> [k \in 1..Len(bars_height) |-> Bar(FromInt(k - 1), FromInt(1), bars_height[k])]]

(* Histogram::new as a plot *)
Histogram(values, buckets_range) ==
    [kind |-> "Histogram", bars |-> HistogramNew(values, buckets_range).buckets]

(* plot.draw(&view, canvas) of a Bars or a Histogram *)
Draw(p, v, c) == BarsDraw(p.bars, v, c, 1)

(***************************************************************************)
(* View and Plot: rendering (src/lib.rs)                                   *)
(***************************************************************************)
(* View::draw_axis *)
DrawAxis(v, c) ==
    DrawSegments(c, v, << <<DomainMin(v.domain), Zero, DomainMax(v.domain), Zero>>,
                         <<Zero, DomainMin(v.codomain), Zero, DomainMax(v.codomain)>> >>, 1)

(* draw_plots as it would be with self.plots.iter().rev() *)
RECURSIVE DrawPlotsReversed(_, _, _, _)
DrawPlotsReversed(ps, v, c, k) ==
    IF k > Len(ps) THEN c
    ELSE Let(Draw(ps[Len(ps) + 1 - k], v, c), LAMBDA d : DrawPlotsReversed(ps, v, d, k + 1))

(* View::draw_plots, from plot k on *)
RECURSIVE DrawPlots(_, _, _, _)
DrawPlots(ps, v, c, k) ==
    IF k > Len(ps) THEN c
    ELSE Let(Draw(ps[k], v, c), LAMBDA d : DrawPlots(ps, v, d, k + 1))

(* The pixels the canvas was given: the ends of its lines and its points.  *)
Pixels(c) == UNION {{c.prims[k].p0, c.prims[k].p1} : k \in 1..Len(c.prims)}

(* ViewCanvas::rows.  The rows are those of drawille::Canvas: a character  *)
(* is 2 by 4 pixels, and a grid of w by h pixels has h / 4 + 1 rows of     *)
(* w / 2 + 1 characters.  Of a character the model keeps whether a pixel   *)
(* the canvas was given lies in it.                                        *)
CanvasRows(c, v) ==
    Let({<<q[1] \div 2, q[2] \div 4>> : q \in Pixels(c)}, LAMBDA cells :
        [r \in 1..(v.size.h \div 4 + 1) |->
            [k \in 1..(v.size.w \div 2 + 1) |->
                IF <<k - 1, r - 1>> \in cells THEN "#" ELSE " "]])

(* format!("{: >n$}", s) *)
PadLeft(s, n) == IF Len(s) >= n THEN s ELSE Spaces(n - Len(s)) \o s

(* isize::MAX: the most bytes a String holds *)
IsizeMax == 2^(UsizeBits - 1) - 1

(* format!("{x_ticks}"): the formatted text in a String.  Formatting       *)
(* panics on an overflow; a text longer than isize::MAX cannot be held, so *)
(* the String's growth ends the call.                                      *)
XTicksToString(t, overflow_checks) ==
    LET labels_width == SumLen(t.labels)
        wraps == t.width < labels_width
    IN  IF wraps /\ overflow_checks THEN [result |-> "panic", out |-> <<>>]
        ELSE IF wraps /\ WrappingSub(t.width, labels_width) > IsizeMax
             THEN [result |-> "panic", out |-> <<>>]
        ELSE Let(XTicksFmt(t, overflow_checks), LAMBDA r : [result |-> r.result, out |-> r.out])

(* View::drawing from `let width` on: the rows of the canvas with the      *)
(* labels of the Y axis before them, and the row of the X axis             *)
Decorated(v, rows, overflow_checks) ==
    Let(YTicksNew(v.codomain, Len(rows), 2), LAMBDA y_ticks :
    Let(DisplayWidth(y_ticks), LAMBDA offset :
    Let(XTicksToString(XTicksNew(v.domain, Len(rows[1]), 2), overflow_checks), LAMBDA x_ticks :
        IF x_ticks.result = "panic" THEN [result |-> "panic", rows |-> <<>>]
        ELSE [result |-> "ok",
              rows |-> Append([index \in 1..Len(rows) |->
                                  PadLeft(YTicksGet(y_ticks, index - 1), offset) \o rows[index]],
                              Spaces(offset) \o x_ticks.out)])))

(* What drawing returns on the canvas cv; self is the view and its plots   *)
(* after the call.                                                         *)
Drawn(v, self, cv, with_decoration, overflow_checks) ==
    IF cv.state = "panicked"
    THEN [result |-> "panic", rows |-> <<>>, canvas |-> cv, raw |-> <<>>, self |-> self]
    ELSE Let(CanvasRows(cv, v), LAMBDA rows :
         IF ~with_decoration
         THEN [result |-> "ok", rows |-> rows, canvas |-> cv, raw |-> rows, self |-> self]
         ELSE Let(Decorated(v, rows, overflow_checks), LAMBDA out :
              [result |-> out.result, rows |-> out.rows, canvas |-> cv, raw |-> rows,
               self |-> self]))

(* drawing as it would be if it took the plots out of the view             *)
(* (self.plots.drain(..)) to draw them                                     *)
DrawingDraining(v, ps, with_decoration, overflow_checks) ==
    Let(DrawAxis(v, ViewCanvasNew), LAMBDA axis :
    Let(DrawPlots(ps, v, axis, 1), LAMBDA cv :
        Drawn(v, [view |-> v, plots |-> <<>>], cv, with_decoration, overflow_checks)))

(* View::drawing.  result is "panic" when a call it makes panics; canvas   *)
(* is the ViewCanvas it drew on, raw the rows of that canvas, rows what it *)
(* returns and self the view and its plots after the call (it takes        *)
(* &self).                                                                 *)
Drawing(v, ps, with_decoration, overflow_checks) ==
    Let(DrawAxis(v, ViewCanvasNew), LAMBDA axis :
    Let(DrawPlots(ps, v, axis, 1), LAMBDA cv :
        Drawn(v, [view |-> v, plots |-> ps], cv, with_decoration, overflow_checks)))

(* n times the character ch *)
Fill(ch, n) == [i \in 1..n |-> ch]

(* format!("{:c^n$}", s): s centred, the odd character of padding after it *)
Center(s, n, ch) ==
    IF Len(s) >= n THEN s
    ELSE Fill(ch, (n - Len(s)) \div 2) \o s \o Fill(ch, (n - Len(s) + 1) \div 2)

(* The lines <Plot as Display>::fmt writes around the rows, a box-drawing  *)
(* character written as its code point                                     *)
Framed(pl, rows) ==
    Let(Len(rows[1]), LAMBDA width :
        << <<"U+256D">> \o Center(pl.title, width, "U+2500") \o <<"U+256E">> >>
        \o [k \in 1..Len(rows) |-> <<"U+2502">> \o rows[k] \o <<"U+2502">>]
        \o << <<"U+2570">> \o Fill("U+2500", width) \o <<"U+256F">>,
              <<" ">> \o Center(pl.x_label, width, " ") \o <<" ">>,
              <<" ">> \o Center(pl.y_label, width, " ") \o <<" ">> >>)

(* <Plot as Display>::fmt: the lines written (each by writeln!; without    *)
(* decoration, the rows joined by newlines), the drawing they were made    *)
(* from and the Plot after the call (fmt takes &self).                     *)
PlotFmt(pl, v, ps, overflow_checks) ==
    Let(Drawing(v, ps, pl.with_decoration, overflow_checks), LAMBDA d :
        [result |-> d.result,
         lines |-> IF d.result = "panic" THEN <<>>
                   ELSE IF ~pl.with_decoration THEN d.rows
                   ELSE Framed(pl, d.rows),
         drawing |-> d,
         self |-> [plot |-> pl, view |-> d.self.view, plots |-> d.self.plots]])

(* Plot::default, without the view *)
PlotDefault == [title |-> <<>>, x_label |-> <<>>, y_label |-> <<>>, with_decoration |-> TRUE]

(* A Plot takes at most MaxPlots plots. *)
MaxPlots == 2

(* A Plot is rendered at most MaxRenders times between two configuration   *)
(* calls.                                                                  *)
MaxRenders == 2

(* The title and the labels a caller sets. *)
Texts == {<<"s", "i", "n">>}

(* The plots a caller adds. *)
Drawables ==
    { Bars(<<FromInt(2), FromInt(1)>>),
      Histogram(<<FromInt(1), FromInt(1), FromInt(3)>>,
                <<Range(FromInt(0), FromInt(2)), Range(FromInt(2), FromInt(4))>>) }

PlotIdle ==
    /\ plot = PlotDefault
    /\ plots = <<>>
    /\ added = <<>>
    /\ rendered = <<>>
    /\ calls = 0

(* Vec::push *)
Push(vec, item) == Append(vec, item)

(* plot.add_plot(Box::new(p)) *)
AddPlot ==
    /\ canvas = NoCanvas
    /\ calls < MaxCalls
    /\ Len(plots) < MaxPlots
    /\ \E p \in Drawables :
           /\ plots' = Push(plots, p)
           /\ added' = added \o <<p>>
    /\ rendered' = <<>>
    /\ calls' = calls + 1
    /\ UNCHANGED <<plot, viewVars, iterVars, tickVars, histVars>>

(* plot.set_title(title) *)
SetTitle ==
    /\ canvas = NoCanvas
    /\ calls < MaxCalls
    /\ \E title \in Texts : plot' = [plot EXCEPT !.title = title]
    /\ rendered' = <<>>
    /\ calls' = calls + 1
    /\ UNCHANGED <<plots, added, viewVars, iterVars, tickVars, histVars>>

(* plot.set_x_label(label) *)
SetXLabel ==
    /\ canvas = NoCanvas
    /\ calls < MaxCalls
    /\ \E label \in Texts : plot' = [plot EXCEPT !.x_label = label]
    /\ rendered' = <<>>
    /\ calls' = calls + 1
    /\ UNCHANGED <<plots, added, viewVars, iterVars, tickVars, histVars>>

(* plot.set_y_label(label) *)
SetYLabel ==
    /\ canvas = NoCanvas
    /\ calls < MaxCalls
    /\ \E label \in Texts : plot' = [plot EXCEPT !.y_label = label]
    /\ rendered' = <<>>
    /\ calls' = calls + 1
    /\ UNCHANGED <<plots, added, viewVars, iterVars, tickVars, histVars>>

(* format!("{plot}"), in a build with or without overflow checks; the      *)
(* canvas of the render is dropped when it returns                         *)
Render ==
    /\ canvas = NoCanvas
    /\ Len(rendered) < MaxRenders
    /\ \E r \in {PlotFmt(plot, view, plots, overflow_checks) : overflow_checks \in BOOLEAN} :
           /\ rendered' = Append(rendered, [result |-> r.result, lines |-> r.lines,
                                            rows |-> r.drawing.rows, raw |-> r.drawing.raw,
                                            canvas |-> r.drawing.canvas])
           /\ plot' = r.self.plot
           /\ view' = r.self.view
           /\ plots' = r.self.plots
    /\ UNCHANGED <<added, calls, canvas, function, iterVars, tickVars, histVars>>

(***************************************************************************)
(* Specifications                                                          *)
(***************************************************************************)
(* Sampling a Domain *)
InitIter == dom \in IterDomains /\ IterIdle /\ TickIdle /\ ViewIdle /\ HistIdle /\ PlotIdle
NextIter == CallIter \/ CallNext
SpecIter == InitIter /\ [][NextIter]_vars

(* The X tick line *)
InitXTicks ==
    /\ dom = DomainDefault /\ IterIdle
    /\ \E d \in TickDomains, w \in 0..MaxWidth :
           tickArgs = [domain |-> d, width |-> w, row_count |-> 1]
    /\ xticks = NoTicks /\ xfmt = NoFmt /\ yticks = NoTicks /\ yget = NoGet
    /\ ViewIdle /\ HistIdle /\ PlotIdle
NextXTicks == CallXTicksNew \/ CallXTicksFmt
SpecXTicks == InitXTicks /\ [][NextXTicks]_vars

(* The Y tick labels *)
InitYTicks ==
    /\ dom = DomainDefault /\ IterIdle
    /\ \E d \in TickDomains, r \in 1..MaxRows :
           tickArgs = [domain |-> d, width |-> 0, row_count |-> r]
    /\ xticks = NoTicks /\ xfmt = NoFmt /\ yticks = NoTicks /\ yget = NoGet
    /\ ViewIdle /\ HistIdle /\ PlotIdle
NextYTicks == CallYTicksNew \/ CallYTicksGet \/ CallDisplayWidth
SpecYTicks == InitYTicks /\ [][NextYTicks]_vars

(* Building histograms *)
InitHist == dom = DomainDefault /\ IterIdle /\ TickIdle /\ ViewIdle /\ HistIdle /\ PlotIdle
NextHist == CallHistogramNew \/ CallHistogramNewWithBucketsCount
SpecHist == InitHist /\ [][NextHist]_vars

(* Drawing a Graph on a fresh canvas *)
InitGraph ==
    /\ dom = DomainDefault /\ IterIdle /\ TickIdle /\ HistIdle /\ PlotIdle
    /\ view \in GraphViews
    /\ function \in [SetOf(Samples(view)) -> FunctionValues]
    /\ canvas = NoCanvas
NextGraph == CallViewCanvasNew \/ CallGraphDraw
SpecGraph == InitGraph /\ [][NextGraph]_vars

(* Configuring the view and drawing on its canvas *)
Init == dom = DomainDefault /\ IterIdle /\ TickIdle /\ HistIdle /\ PlotIdle /\ ViewIdle
Next ==
    \/ SetDomain
    \/ SetCodomain
    \/ SetSize
    \/ CallViewCanvasNew
    \/ CallLine
    \/ CallPoint
    \/ DropCanvas
Spec == Init /\ [][Next]_vars

(* Configuring a Plot and rendering it *)
InitPlot == dom = DomainDefault /\ IterIdle /\ TickIdle /\ HistIdle /\ PlotIdle /\ ViewIdle
NextPlot ==
    \/ SetDomain
    \/ SetCodomain
    \/ SetSize
    \/ SetTitle
    \/ SetXLabel
    \/ SetYLabel
    \/ AddPlot
    \/ Render
SpecPlot == InitPlot /\ [][NextPlot]_vars

(***************************************************************************)
(* Claims about Domain::iter, checked under SpecIter                       *)
(***************************************************************************)
StepOf(d, steps) == FDiv(DomainRange(d), FromInt(steps))

(* C1: for a domain [a,b] with a < b and steps > 0, the iteration yields   *)
(* exactly `steps` values: the first is a, each next one is the one before *)
(* plus (b-a)/steps, and the last is less than b.                          *)
C1_ExactlyStepsValues ==
    (itEnded /\ itSteps > 0 /\ FLt(dom.start, dom.end)) =>
        /\ Len(yielded) = itSteps
        /\ yielded[1] = dom.start
        /\ \A k \in 1..(Len(yielded) - 1) :
               yielded[k + 1] = FAdd(yielded[k], StepOf(dom, itSteps))
        /\ FLt(yielded[Len(yielded)], dom.end)

(* C2: Domain::iter(0) fails: it builds no iterator, so none with an       *)
(* increment that is NaN or infinite, and no value is yielded.             *)
C2_ZeroStepsFails ==
    itSteps = 0 => (it = NoIter /\ yielded = <<>>)

(* start > end on the numbers the pairs stand for *)
Reversed(d) ==
    IsFinite(d.start) /\ IsFinite(d.end) /\ d.end[1] * d.start[2] < d.start[1] * d.end[2]

(* |end - start| as a float *)
Span(d) == RoundQ(Abs(d.end[1] * d.start[2] - d.start[1] * d.end[2]), d.start[2] * d.end[2])

(* C12: for a domain with start > end and steps > 0, the iteration yields  *)
(* no value: the first next() and every one after it returns None, while   *)
(* range() is the positive |end - start| (16 for Domain(8,-8)), the step   *)
(* is that range over steps, and min() and max() are start and end.        *)
C12_ReversedYieldsNothing ==
    (Reversed(dom) /\ itSteps > 0) =>
        /\ yielded = <<>>
        /\ ~IteratorNext(it).some
        /\ it.current = dom.start
        /\ it.step_by = FDiv(Span(dom), FromInt(itSteps))
        /\ DomainRange(dom) = Span(dom)
        /\ FLt(Zero, DomainRange(dom))
        /\ DomainMin(dom) = dom.start
        /\ DomainMax(dom) = dom.end
        /\ DomainRange(Domain(FromInt(8), FromInt(-8))) = FromInt(16)
        /\ DomainRange(Domain(FromInt(-10), FromInt(10))) = FromInt(20)

(* Domain(8,-8).iter(steps) was run to its end and yielded nothing. *)
C12_Witness ==
    /\ dom = Domain(FromInt(8), FromInt(-8))
    /\ itSteps > 0
    /\ itEnded
    /\ yielded = <<>>
    /\ DomainRange(dom) = FromInt(16)

(***************************************************************************)
(* Claims about Graph::draw, checked under SpecGraph                       *)
(***************************************************************************)
(* The indexes, in the sampling sequence, of the samples with a finite value *)
FiniteIdx == {k \in 1..Len(Samples(view)) : IsFinite(function[Samples(view)[k]])}

(* The j-th of them *)
NthFinite(j) == CHOOSE k \in FiniteIdx : Cardinality({m \in FiniteIdx : m < k}) = j - 1

SampleAt(k) == <<Samples(view)[k], function[Samples(view)[k]]>>

(* prim joins the samples of indexes a and b *)
Joins(prim, a, b) == prim.op = "line" /\ prim.from = SampleAt(a) /\ prim.to = SampleAt(b)

MinLabel == Format1(DomainMin(tickArgs.domain))
MaxLabel == Format1(DomainMax(tickArgs.domain))
LabelsWidth == Len(MinLabel) + Len(MaxLabel)
Formatted == xticks # NoTicks /\ xfmt.result # "none"

(* C4: when the two labels are wider than total_width, formatting fails    *)
(* or clamps the spacing to zero; no subtraction goes below zero.          *)
C4_NoUnderflow ==
    (Formatted /\ LabelsWidth > tickArgs.width) =>
        \/ xfmt.result = "panic"
        \/ xfmt.result = "ok" /\ xfmt.spacing = 0 /\ ~xfmt.underflow

(* C9: when the two labels fit, the line is total_width characters long,   *)
(* the min label is at its start, the max label at its end, and between    *)
(* them are total_width minus the labels' width spaces.                    *)
C9_LineLayout ==
    (Formatted /\ LabelsWidth <= tickArgs.width) =>
        /\ xfmt.result = "ok"
        /\ Len(xfmt.out) = tickArgs.width
        /\ SubSeq(xfmt.out, 1, Len(MinLabel)) = MinLabel
        /\ SubSeq(xfmt.out, tickArgs.width - Len(MaxLabel) + 1, tickArgs.width) = MaxLabel
        /\ \A c \in (Len(MinLabel) + 1)..(tickArgs.width - Len(MaxLabel)) : xfmt.out[c] = " "
        /\ xfmt.spacing = tickArgs.width - LabelsWidth

(* XTicks(Domain(-10,10), 20): "-10.0", eleven spaces, "10.0" *)
C9_Witness ==
    /\ tickArgs.domain = DomainDefault
    /\ tickArgs.width = 20
    /\ Formatted
    /\ xfmt.result = "ok"
    /\ xfmt.out = <<"-", "1", "0", ".", "0">> \o Spaces(11) \o <<"1", "0", ".", "0">>

(***************************************************************************)
(* Claims about YTicks, checked under SpecYTicks                           *)
(***************************************************************************)
LongerLabel == IF Len(MaxLabel) >= Len(MinLabel) THEN Len(MaxLabel) ELSE Len(MinLabel)

(* C10 as stated: get(0) is the max label, get(row_count - 1) is the min   *)
(* label, every other row is empty; display_width is the longer label's    *)
(* length.                                                                 *)
C10_LabelRows ==
    /\ (yticks # NoTicks /\ yget.call = "get") =>
           /\ yget.row_index = 0 => yget.label = MaxLabel
           /\ yget.row_index = tickArgs.row_count - 1 => yget.label = MinLabel
           /\ yget.row_index \notin {0, tickArgs.row_count - 1} => yget.label = <<>>
    /\ (yticks # NoTicks /\ yget.call = "display_width") => yget.width = LongerLabel

(* C10 amended: the min label is on row row_count - 1 when that is not row *)
(* 0; with one row, row 0 has the max label.                               *)
C10_LabelRowsAmended ==
    /\ (yticks # NoTicks /\ yget.call = "get") =>
           /\ yget.row_index = 0 => yget.label = MaxLabel
           /\ (yget.row_index = tickArgs.row_count - 1 /\ yget.row_index # 0) =>
                  yget.label = MinLabel
           /\ yget.row_index \notin {0, tickArgs.row_count - 1} => yget.label = <<>>
    /\ (yticks # NoTicks /\ yget.call = "display_width") => yget.width = LongerLabel

(* The last of several rows has the min label, which is not the max label. *)
C10_Witness ==
    /\ yticks # NoTicks
    /\ yget.call = "get"
    /\ tickArgs.row_count > 1
    /\ yget.row_index = tickArgs.row_count - 1
    /\ yget.label = MinLabel
    /\ MinLabel # MaxLabel

(***************************************************************************)
(* Claims about Histogram, checked under SpecHist                          *)
(***************************************************************************)
(* a <= b and a < b on the numbers the pairs stand for *)
Leq(a, b) ==
    /\ ~IsNaN(a)
    /\ ~IsNaN(b)
    /\ \/ a = b
       \/ a = NegInf
       \/ b = PosInf
       \/ IsFinite(a) /\ IsFinite(b) /\ a[1] * b[2] <= b[1] * a[2]
Less(a, b) == Leq(a, b) /\ a # b

(* The indexes of the values in [range.start, range.end) *)
ValuesIn(range) ==
    {j \in 1..Len(histArgs.values) :
        Leq(range.start, histArgs.values[j]) /\ Less(histArgs.values[j], range.end)}

(* The buckets that contain value j *)
BucketsWith(j) ==
    {k \in 1..Len(histArgs.buckets_range) : j \in ValuesIn(histArgs.buckets_range[k])}

(* The height of bar k as an integer *)
HeightOf(k) == AsU32(hist.buckets[k].height)

RECURSIVE SumHeights(_)
SumHeights(k) == IF k = 0 THEN 0 ELSE HeightOf(k) + SumHeights(k - 1)

RECURSIVE SumBucketsWith(_)
SumBucketsWith(j) == IF j = 0 THEN 0 ELSE Cardinality(BucketsWith(j)) + SumBucketsWith(j - 1)

(* C5: built from a count n >= 1 and values that are not all equal, every  *)
(* value is in exactly one bucket and the heights sum to the number of     *)
(* values.                                                                 *)
C5_EveryValueCounted ==
    (/\ hist.built
     /\ histArgs.count >= 1
     /\ \E i, j \in 1..Len(histArgs.values) : histArgs.values[i] # histArgs.values[j]) =>
        /\ \A j \in 1..Len(histArgs.values) : Cardinality(BucketsWith(j)) = 1
        /\ SumHeights(Len(hist.buckets)) = Len(histArgs.values)

(* C6: bar k has the start of range k as x, its end minus its start as     *)
(* width and the number of values in [start, end) as height; the heights   *)
(* sum to the number of (value, bucket) pairs with the value in the        *)
(* bucket; [1,1,3,3,5] in [0,2),[2,4),[4,6) gives 2, 2, 1.                 *)
C6_BarsCountValues ==
    hist.built =>
        /\ Len(hist.buckets) = Len(histArgs.buckets_range)
        /\ \A k \in 1..Len(hist.buckets) :
               /\ hist.buckets[k].x = histArgs.buckets_range[k].start
               /\ hist.buckets[k].width =
                      FSub(histArgs.buckets_range[k].end, histArgs.buckets_range[k].start)
               /\ hist.buckets[k].height =
                      <<Cardinality(ValuesIn(histArgs.buckets_range[k])), 1>>
        /\ SumHeights(Len(hist.buckets)) = SumBucketsWith(Len(histArgs.values))

ExampleRanges ==
    <<Range(FromInt(0), FromInt(2)), Range(FromInt(2), FromInt(4)),
      Range(FromInt(4), FromInt(6))>>

(* The example: heights 2, 2, 1 *)
C6_Witness ==
    /\ hist.built
    /\ histArgs.values = HistExample
    /\ histArgs.buckets_range = ExampleRanges
    /\ [k \in 1..3 |-> hist.buckets[k].height] = <<<<2, 1>>, <<2, 1>>, <<1, 1>>>>

(***************************************************************************)
(* Claims about ViewCanvas, checked under Spec                             *)
(***************************************************************************)
MinCorner == <<DomainMin(view.domain), DomainMin(view.codomain)>>
MaxCorner == <<DomainMax(view.domain), DomainMax(view.codomain)>>
Increasing(d) == Less(d.start, d.end)

InGrid(pt, px) ==
    /\ 0 <= px[1] /\ px[1] <= view.size.w - 1
    /\ 0 <= px[2] /\ px[2] <= view.size.h - 1
    /\ (Increasing(view.domain) /\ Less(DomainMax(view.domain), pt[1])) =>
           px[1] = view.size.w - 1
    /\ (Increasing(view.domain) /\ Less(pt[1], DomainMin(view.domain))) => px[1] = 0
    /\ (Increasing(view.codomain) /\ Less(DomainMax(view.codomain), pt[2])) => px[2] = 0
    /\ (Increasing(view.codomain) /\ Less(pt[2], DomainMin(view.codomain))) =>
           px[2] = view.size.h - 1

NonDegenerate(d) == DomainMin(d) # DomainMax(d)

(* C8: with w >= 1, h >= 1 and a domain and codomain that are not empty,   *)
(* every call of line or point, whatever its coordinates, forwards one     *)
(* primitive to the grid, with pixels in [0, w-1] x [0, h-1] (at the edge  *)
(* for coordinates beyond the view), and does not fail.                    *)
C8_EveryCallInGrid ==
    [][(/\ canvas.state = "open"
        /\ canvas'.state # "none"
        /\ view.size.w >= 1
        /\ view.size.h >= 1
        /\ NonDegenerate(view.domain)
        /\ NonDegenerate(view.codomain)) =>
           /\ canvas'.state = "open"
           /\ Len(canvas'.prims) = Len(canvas.prims) + 1
           /\ SubSeq(canvas'.prims, 1, Len(canvas.prims)) = canvas.prims
           /\ \A p \in 1..Len(canvas'.prims) :
                  /\ InGrid(canvas'.prims[p].from, canvas'.prims[p].p0)
                  /\ InGrid(canvas'.prims[p].to, canvas'.prims[p].p1)]_vars

(* A point outside the view was drawn at the edge of a grid of several     *)
(* pixels.                                                                 *)
C8_Witness ==
    /\ view.size.w > 1
    /\ view.size.h > 1
    /\ Increasing(view.domain)
    /\ Increasing(view.codomain)
    /\ \E p \in 1..Len(canvas.prims) :
           /\ canvas.prims[p].from = <<FromInt(100), FromInt(-100)>>
           /\ canvas.prims[p].p0 = <<view.size.w - 1, view.size.h - 1>>

(***************************************************************************)
(* Claims about rendering a Plot, checked under SpecPlot                   *)
(***************************************************************************)
(* The rows of the canvas of a render are R >= 1 rows of one width *)
EqualRaw(r) ==
    /\ r.canvas.state = "open"
    /\ Len(r.raw) >= 1
    /\ \A k \in 1..Len(r.raw) : Len(r.raw[k]) = Len(r.raw[1])

(* C11: View::drawing(true) over a canvas that renders R >= 1 rows of one  *)
(* width W returns R + 1 rows, and each of them, the R rows with their     *)
(* label and the row of the X ticks, has YTicks::display_width() + W       *)
(* characters.                                                             *)
C11_RowsOfEqualWidth ==
    \A i \in 1..Len(rendered) :
        EqualRaw(rendered[i]) =>
            /\ rendered[i].result = "ok"
            /\ Len(rendered[i].rows) = Len(rendered[i].raw) + 1
            /\ \A k \in 1..Len(rendered[i].rows) :
                   Len(rendered[i].rows[k]) =
                       DisplayWidth(YTicksNew(view.codomain, Len(rendered[i].raw), 2))
                       + Len(rendered[i].raw[1])

PrimOf(seg) == Line(ViewCanvasNew, view, seg[1], seg[2], seg[3], seg[4]).prims

(* The x axis, then the y axis *)
AxisPrims ==
    PrimOf(<<DomainMin(view.domain), Zero, DomainMax(view.domain), Zero>>)
    \o PrimOf(<<Zero, DomainMin(view.codomain), Zero, DomainMax(view.codomain)>>)

(* What the plots added from the k-th call of add_plot on draw, each on    *)
(* its own *)
RECURSIVE PlotPrims(_)
PlotPrims(k) ==
    IF k > Len(added) THEN <<>>
    ELSE Draw(added[k], view, ViewCanvasNew).prims \o PlotPrims(k + 1)

IsPrefix(s, t) == Len(s) <= Len(t) /\ SubSeq(t, 1, Len(s)) = s

(* C14: the plot list is the arguments of the add_plot calls in call       *)
(* order, whatever other configuration calls were made; a render gives a   *)
(* fresh canvas the x axis, the y axis and then what each plot draws, once *)
(* and in that order (when a call of line panics, what it had given until  *)
(* then).                                                                  *)
C14_PlotsInCallOrder ==
    /\ plots = added
    /\ \A i \in 1..Len(rendered) :
           IF rendered[i].canvas.state = "open"
           THEN rendered[i].canvas.prims = AxisPrims \o PlotPrims(1)
           ELSE IsPrefix(rendered[i].canvas.prims, AxisPrims \o PlotPrims(1))

(* Two different plots were added and the Plot was rendered. *)
C14_Witness ==
    /\ Len(added) = 2
    /\ added[1] # added[2]
    /\ Len(rendered) >= 1
    /\ rendered[1].result = "ok"
    /\ Len(rendered[1].canvas.prims) =
           2 + 3 * Len(added[1].bars) + 3 * Len(added[2].bars)

====
